---------------------------- MODULE Spec2Model ----------------------------
(***************************************************************************)
(* A model of main.py of DIPC-Raw-Data-Processor: the nested-archive       *)
(* pipeline (extract_all_subdirs, process_csv_from_zip,                    *)
(* combine_csvs_from_dir, dipc_raw_to_dataframe), filter_dataframe and     *)
(* save_dataframe_to_csv.                                                  *)
(*                                                                         *)
(* Text (file names, CSV fields, filter targets) is a sequence of          *)
(* one-character strings, so that str.endswith and astype(str) are         *)
(* computed and not assumed.  A path is a sequence of names relative to    *)
(* the scratch directory "temp_extracted"; <<>> is that directory itself.  *)
(*                                                                         *)
(* The inputs are bounded as follows.  CSV fields are runs of digits,      *)
(* other text, or blank, and every line has as many fields as the header;  *)
(* numbers are non-negative and floats whole.  No archive member's path is *)
(* both a file and a directory.  extractall, the walk of the aggregator    *)
(* and the cleanup loop are each one step, so the concurrent program has   *)
(* fewer interleavings than the real one and every one it has is real.     *)
(***************************************************************************)
EXTENDS Naturals, Sequences, FiniteSets, TLC

VARIABLES
    fs,        \* the scratch directory tree: path -> Dir or a file's content
    pc,        \* per invocation of dipc_raw_to_dataframe: the line it is at
    arch,      \* per invocation: the top-level archive (dir_a) it was given
    pending,   \* per invocation: what the try block left (return value or exception)
    ret,       \* per invocation: what the call gave its caller
    runs,      \* number of invocations started so far
    faults,    \* number of os.remove calls the environment has refused
    fcall,     \* the last call of filter_dataframe: arguments and outcome
    scall      \* the last call of save_dataframe_to_csv: arguments, outcome, file

vars == <<fs, pc, arch, pending, ret, runs, faults, fcall, scall>>

-----------------------------------------------------------------------------
(* Bounds of the model. *)

\* Entries per top-level archive.
MaxEntries == 2
\* Invocations of dipc_raw_to_dataframe in one behaviour of the sequential program.
MaxRuns == 2
\* os.remove calls the environment may refuse (PermissionError) in one behaviour.
MaxFaults == 1

-----------------------------------------------------------------------------
(* Text. *)

Range(s) == {s[i] : i \in 1..Len(s)}

Last(s) == s[Len(s)]

Front(s) == SubSeq(s, 1, Len(s) - 1)

\* str.endswith(suffix)
EndsWith(s, suffix) ==
    /\ Len(s) >= Len(suffix)
    /\ SubSeq(s, Len(s) - Len(suffix) + 1, Len(s)) = suffix

DotZip == <<".", "z", "i", "p">>
DotCsv == <<".", "c", "s", "v">>

DigitChars == <<"0", "1", "2", "3", "4", "5", "6", "7", "8", "9">>

IsDigit(ch) == ch \in Range(DigitChars)

DigitValue(ch) == (CHOOSE i \in 1..10 : DigitChars[i] = ch) - 1

\* str(n) of a non-negative int
RECURSIVE IntToStr(_)
IntToStr(n) ==
    IF n < 10 THEN <<DigitChars[n + 1]>>
    ELSE IntToStr(n \div 10) \o <<DigitChars[(n % 10) + 1]>>

\* int(text) of a non-empty run of digits (leading zeros vanish)
RECURSIVE ParseInt(_)
ParseInt(s) ==
    IF s = <<>> THEN 0
    ELSE 10 * ParseInt(Front(s)) + DigitValue(Last(s))

AllDigits(s) == s # <<>> /\ \A i \in 1..Len(s) : IsDigit(s[i])

-----------------------------------------------------------------------------
(* Cells and tables (pandas.DataFrame). *)

IntCell(n)   == [k |-> "int",   n |-> n, s |-> <<>>]
FloatCell(n) == [k |-> "float", n |-> n, s |-> <<>>]   \* the float n.0
StrCell(s)   == [k |-> "str",   n |-> 0, s |-> s]
NaN          == [k |-> "nan",   n |-> 0, s |-> <<>>]

\* Series.astype(str), per cell
astype_str(cell) ==
    CASE cell.k = "int"   -> IntToStr(cell.n)
      [] cell.k = "float" -> IntToStr(cell.n) \o <<".", "0">>
      [] cell.k = "nan"   -> <<"n", "a", "n">>
      [] OTHER            -> cell.s

\* pd.DataFrame(): zero rows, zero columns
EmptyDataFrame == [cols |-> <<>>, rows |-> <<>>]

Column(t, c) == [i \in 1..Len(t.rows) |-> t.rows[i][c]]

\* Outcomes of a call: a returned table, a returned None, a raised exception
\* (with the exception it replaced, Python's __context__), or no call yet.
Return(v)     == [kind |-> "return", value |-> v, err |-> "", context |-> ""]
ReturnNone    == [kind |-> "none", value |-> EmptyDataFrame, err |-> "", context |-> ""]
Raise(e, ctx) == [kind |-> "raise", value |-> EmptyDataFrame, err |-> e, context |-> ctx]
NoOutcome     == [kind |-> "nocall", value |-> EmptyDataFrame, err |-> "", context |-> ""]

-----------------------------------------------------------------------------
(* pd.read_csv: the header names the columns; a column whose fields are    *)
(* all runs of digits is int64, one of digits and blanks is float64 with   *)
(* NaN for the blanks, any other is object with NaN for the blanks.        *)

ColumnFields(text, j) == [i \in 1..Len(text.lines) |-> text.lines[i][j]]

InferCell(fields, field) ==
    IF \A i \in 1..Len(fields) : AllDigits(fields[i])
    THEN IntCell(ParseInt(field))
    ELSE IF \A i \in 1..Len(fields) : fields[i] = <<>> \/ AllDigits(fields[i])
    THEN IF field = <<>> THEN NaN ELSE FloatCell(ParseInt(field))
    ELSE IF field = <<>> THEN NaN ELSE StrCell(field)

read_csv(text) ==
    IF text.header = <<>> THEN Raise("EmptyDataError", "")
    ELSE Return(
        [cols |-> text.header,
         rows |-> [i \in 1..Len(text.lines) |->
                     [c \in Range(text.header) |->
                        LET j == CHOOSE x \in 1..Len(text.header) : text.header[x] = c
                        IN InferCell(ColumnFields(text, j), text.lines[i][j])]]])

-----------------------------------------------------------------------------
(* pd.concat(frames, ignore_index=True): the columns are the union in      *)
(* order of first appearance, a frame lacking a column gets NaN there, and *)
(* a numeric column that holds a float or a NaN is float64 throughout.     *)

RECURSIVE UnionCols(_)
UnionCols(frames) ==
    IF frames = <<>> THEN <<>>
    ELSE LET init == UnionCols(Front(frames))
             new  == SelectSeq(Last(frames).cols, LAMBDA c : c \notin Range(init))
         IN init \o new

RECURSIVE StackRows(_, _)
StackRows(frames, cols) ==
    IF frames = <<>> THEN <<>>
    ELSE LET f == Last(frames)
             widened == [i \in 1..Len(f.rows) |->
                           [c \in Range(cols) |->
                              IF c \in Range(f.cols) THEN f.rows[i][c] ELSE NaN]]
         IN StackRows(Front(frames), cols) \o widened

Upcast(rows, c, cell) ==
    IF /\ cell.k = "int"
       /\ \A i \in 1..Len(rows) : rows[i][c].k # "str"
       /\ \E i \in 1..Len(rows) : rows[i][c].k \in {"float", "nan"}
    THEN FloatCell(cell.n)
    ELSE cell

concat(frames) ==
    LET cols == UnionCols(frames)
        rows == StackRows(frames, cols)
    IN [cols |-> cols,
        rows |-> [i \in 1..Len(rows) |->
                    [c \in Range(cols) |-> Upcast(rows, c, rows[i][c])]]]

-----------------------------------------------------------------------------
(* Files.  A file's content is a zip container (its entries in namelist    *)
(* order), or text (a header line and data lines, each a tuple of fields). *)

Dir == [type |-> "dir", entries |-> <<>>, header |-> <<>>, lines |-> <<>>]

Zip(entries) == [type |-> "zip", entries |-> entries, header |-> <<>>, lines |-> <<>>]

Text(header, lines) == [type |-> "text", entries |-> <<>>, header |-> header, lines |-> lines]

\* A path that names no file.
Missing == [type |-> "missing", entries |-> <<>>, header |-> <<>>, lines |-> <<>>]

FileEntry(path, data) == [path |-> path, isdir |-> FALSE, data |-> data]

DirEntry(path) == [path |-> path, isdir |-> TRUE, data |-> Dir]

\* The name ZipFile.namelist gives an entry: its path joined by "/", a
\* directory's ending in "/".
RECURSIVE JoinPath(_)
JoinPath(path) ==
    IF Len(path) = 1 THEN path[1]
    ELSE JoinPath(Front(path)) \o <<"/">> \o Last(path)

EntryName(e) == IF e.isdir THEN JoinPath(e.path) \o <<"/">> ELSE JoinPath(e.path)

\* zipfile.ZipFile(path, "r")
ZipFile(content) ==
    CASE content.type = "missing" -> Raise("FileNotFoundError", "")
      [] content.type = "zip"     -> ReturnNone
      [] OTHER                    -> Raise("BadZipFile", "")

-----------------------------------------------------------------------------
(* The scratch directory tree.  fs maps each existing path to Dir or to    *)
(* the file's content; the scratch directory exists iff <<>> is mapped.    *)

NoScratch == <<>>

Exists(tree, path) == path \in DOMAIN tree

IsFile(tree, path) == Exists(tree, path) /\ tree[path].type # "dir"

IsDir(tree, path) == Exists(tree, path) /\ tree[path].type = "dir"

Children(tree, d) ==
    {p \in DOMAIN tree : Len(p) = Len(d) + 1 /\ SubSeq(p, 1, Len(d)) = d}

FilesIn(tree, d) == {p \in Children(tree, d) : tree[p].type # "dir"}

DirsIn(tree, d) == {p \in Children(tree, d) : tree[p].type = "dir"}

AllFiles(tree) == {p \in DOMAIN tree : tree[p].type # "dir"}

\* os.scandir lists a directory in no particular order.
Listings(S) ==
    {s \in [1..Cardinality(S) -> S] : \A i, j \in 1..Cardinality(S) : s[i] = s[j] => i = j}

\* os.walk(top), top-down: a directory's files, then each subdirectory's
\* walk; nothing when top is no directory.  The result is the sequence of
\* os.path.join(root, file) over the nested loops of lines 60-61 and 92-93.
RECURSIVE walk(_, _)
RECURSIVE WalkEach(_, _)
WalkEach(tree, ds) ==
    IF ds = <<>> THEN {<<>>}
    ELSE {a \o b : a \in walk(tree, Head(ds)), b \in WalkEach(tree, Tail(ds))}

walk(tree, top) ==
    IF ~IsDir(tree, top) THEN {<<>>}
    ELSE UNION {{f \o r : f \in Listings(FilesIn(tree, top)), r \in WalkEach(tree, ds)} :
                  ds \in Listings(DirsIn(tree, top))}

\* os.makedirs(temp_dir, exist_ok=True)
makedirs(tree) == IF Exists(tree, <<>>) THEN tree ELSE (<<>> :> Dir)

\* ZipFile.extractall(extract_to): every member is written under the
\* destination, its parent directories created as needed, an existing file
\* overwritten; what was there before stays.
Prefixes(path) == {SubSeq(path, 1, n) : n \in 0..(Len(path) - 1)}

extractall(tree, entries) ==
    LET dirs  == UNION {Prefixes(entries[i].path) \cup
                          (IF entries[i].isdir THEN {entries[i].path} ELSE {}) :
                        i \in 1..Len(entries)} \cup {<<>>}
        files == {entries[i].path : i \in {j \in 1..Len(entries) : ~entries[j].isdir}}
        data(p) == entries[CHOOSE i \in 1..Len(entries) :
                             /\ entries[i].path = p
                             /\ \A j \in 1..Len(entries) : entries[j].path = p => j <= i].data
    IN [p \in DOMAIN tree \cup dirs \cup files |->
          IF p \in files THEN data(p)
          ELSE IF p \in dirs THEN Dir
          ELSE tree[p]]

\* extract_all_subdirs(zip_path, extract_to): the tree afterwards, what the
\* call gave (raised, or returned) and the list it returns.
extract_all_subdirs(tree, archive) ==
    IF ZipFile(archive).kind = "raise"
    THEN [tree |-> tree, outcome |-> ZipFile(archive), extracted_files |-> <<>>]
    ELSE LET after == extractall(tree, archive.entries)
         IN [tree |-> after,
             outcome |-> ReturnNone,
             extracted_files |->
                 [i \in 1..Len(SelectSeq(archive.entries, LAMBDA e : IsFile(after, e.path))) |->
                    SelectSeq(archive.entries, LAMBDA e : IsFile(after, e.path))[i].path]]

\* process_csv_from_zip(zip_path): the first entry named *.csv, parsed; None
\* when there is none.
process_csv_from_zip(content) ==
    IF ZipFile(content).kind = "raise" THEN ZipFile(content)
    ELSE LET csv_files == SelectSeq(content.entries,
                                    LAMBDA e : EndsWith(EntryName(e), DotCsv))
         IN IF csv_files = <<>> THEN ReturnNone
            ELSE IF csv_files[1].data.type # "text" THEN Raise("ParserError", "")
            ELSE read_csv(csv_files[1].data)

\* A combine that lists only zip_dir itself (os.listdir for os.walk).
combine_csvs_top_level_only(tree, order) ==
    LET zips    == SelectSeq(order, LAMBDA p : Len(p) = 1 /\ EndsWith(Last(p), DotZip))
        dfs     == [i \in 1..Len(zips) |-> process_csv_from_zip(tree[zips[i]])]
        failed  == {i \in 1..Len(zips) : dfs[i].kind = "raise"}
        combined_data == SelectSeq(dfs, LAMBDA df : df.kind = "return")
    IN IF failed # {}
       THEN dfs[CHOOSE i \in failed : \A j \in failed : i <= j]
       ELSE IF combined_data # <<>>
       THEN Return(concat([i \in 1..Len(combined_data) |-> combined_data[i].value]))
       ELSE Return(EmptyDataFrame)

\* combine_csvs_from_dir(zip_dir), the walk having listed the files as
\* `order`: every *.zip is processed in that order, the first failure
\* propagates, the tables found are concatenated.
combine_csvs_from_dir(tree, order) ==
    LET zips    == SelectSeq(order, LAMBDA p : EndsWith(Last(p), DotZip))
        dfs     == [i \in 1..Len(zips) |-> process_csv_from_zip(tree[zips[i]])]
        failed  == {i \in 1..Len(zips) : dfs[i].kind = "raise"}
        combined_data == SelectSeq(dfs, LAMBDA df : df.kind = "return")
    IN IF failed # {}
       THEN dfs[CHOOSE i \in failed : \A j \in failed : i <= j]
       ELSE IF combined_data # <<>>
       THEN Return(concat([i \in 1..Len(combined_data) |-> combined_data[i].value]))
       ELSE Return(EmptyDataFrame)

-----------------------------------------------------------------------------
(* dipc_raw_to_dataframe, line by line.                                    *)

\* Lines 92-94 when every os.remove succeeds: every file of the tree is
\* removed, every directory stays.
remove_files(tree) == [p \in {q \in DOMAIN tree : tree[q].type = "dir"} |-> tree[p]]

\* Lines 92-94 when the k-th os.remove of the walk `order` raises: the files
\* before it are gone, the loop is left.
remove_files_until(tree, order, k) ==
    [p \in DOMAIN tree \ {order[i] : i \in 1..(k - 1)} |-> tree[p]]

\* os.rmdir(temp_dir)
rmdir(tree) ==
    IF ~Exists(tree, <<>>)
    THEN [tree |-> tree, outcome |-> Raise("FileNotFoundError", "")]
    ELSE IF Children(tree, <<>>) # {}
    THEN [tree |-> tree, outcome |-> Raise("OSError(ENOTEMPTY)", "")]
    ELSE [tree |-> NoScratch, outcome |-> ReturnNone]

\* try ... finally: what the call gives its caller, from what the try block
\* left and what the finally block did.  An exception leaving the finally
\* block replaces the return value or the exception in flight, which it
\* keeps as its __context__.
finally(tried, cleanup) ==
    IF cleanup.kind = "raise" THEN Raise(cleanup.err, tried.err)
    ELSE tried

-----------------------------------------------------------------------------
(* filter_dataframe and save_dataframe_to_csv.                             *)

\* A filter that compares the cells as they are (no astype(str)).
filter_dataframe_uncoerced(dataframe, column, filter_text) ==
    IF column \notin Range(dataframe.cols)
    THEN Raise("ValueError: column not found", "")
    ELSE LET mask == [i \in 1..Len(dataframe.rows) |->
                        /\ Column(dataframe, column)[i].k = "str"
                        /\ Column(dataframe, column)[i].s = filter_text]
             keep == SelectSeq([i \in 1..Len(dataframe.rows) |-> i], LAMBDA i : mask[i])
         IN Return([cols |-> dataframe.cols,
                    rows |-> [n \in 1..Len(keep) |-> dataframe.rows[keep[n]]]])

\* A filter that hands an empty frame back before it looks for the column.
filter_dataframe_empty_guard(dataframe, column, filter_text) ==
    IF dataframe.rows = <<>> THEN Return(dataframe)
    ELSE IF column \notin Range(dataframe.cols)
    THEN Raise("ValueError: column not found", "")
    ELSE LET mask == [i \in 1..Len(dataframe.rows) |->
                        astype_str(Column(dataframe, column)[i]) = filter_text]
             keep == SelectSeq([i \in 1..Len(dataframe.rows) |-> i], LAMBDA i : mask[i])
         IN Return([cols |-> dataframe.cols,
                    rows |-> [n \in 1..Len(keep) |-> dataframe.rows[keep[n]]]])

\* A filter that re-infers the result's dtypes (convert_dtypes): a column of
\* whole floats becomes a column of ints.
filter_dataframe_downcast(dataframe, column, filter_text) ==
    IF column \notin Range(dataframe.cols)
    THEN Raise("ValueError: column not found", "")
    ELSE LET mask == [i \in 1..Len(dataframe.rows) |->
                        astype_str(Column(dataframe, column)[i]) = filter_text]
             keep == SelectSeq([i \in 1..Len(dataframe.rows) |-> i], LAMBDA i : mask[i])
             rows == [n \in 1..Len(keep) |-> dataframe.rows[keep[n]]]
             whole(c) == \A n \in 1..Len(rows) : rows[n][c].k = "float"
         IN Return([cols |-> dataframe.cols,
                    rows |-> [n \in 1..Len(rows) |->
                                [c \in Range(dataframe.cols) |->
                                   IF whole(c) THEN IntCell(rows[n][c].n) ELSE rows[n][c]]]])

\* Lines 115-119.
filter_dataframe(dataframe, column, filter_text) ==
    IF column \notin Range(dataframe.cols)
    THEN Raise("ValueError: column not found", "")
    ELSE LET mask == [i \in 1..Len(dataframe.rows) |->
                        astype_str(Column(dataframe, column)[i]) = filter_text]
             keep == SelectSeq([i \in 1..Len(dataframe.rows) |-> i], LAMBDA i : mask[i])
         IN Return([cols |-> dataframe.cols,
                    rows |-> [n \in 1..Len(keep) |-> dataframe.rows[keep[n]]]])

\* DataFrame.to_csv(output_filename, index=False) as text: the header, and
\* per row the cells as written (a NaN is an empty field).
to_csv_field(cell) == IF cell.k = "nan" THEN <<>> ELSE astype_str(cell)

to_csv_text(dataframe) ==
    [header |-> dataframe.cols,
     lines  |-> [i \in 1..Len(dataframe.rows) |->
                   [j \in 1..Len(dataframe.cols) |->
                      to_csv_field(dataframe.rows[i][dataframe.cols[j]])]]]

\* What the operating system lets the write do.
IoConditions == {"ok", "PermissionError", "FileNotFoundError", "ENOSPC"}

to_csv(dataframe, io) == IF io = "ok" THEN ReturnNone ELSE Raise(io, "")

\* Lines 134-138: the outcome of the call and the line it prints.
save_dataframe_to_csv(dataframe, io) ==
    IF to_csv(dataframe, io).kind = "raise"
    THEN [outcome |-> ReturnNone, printed |-> "An error occurred while saving the DataFrame"]
    ELSE [outcome |-> ReturnNone, printed |-> "DataFrame successfully saved"]

-----------------------------------------------------------------------------
(* Inputs: the files the archives are made of.                             *)

U01 == <<"U", "0", "1">>

\* Two rows, as in the reference scenario: a name column and an int column.
CsvA == Text(<<"RESOURCE_NAME", "MW">>, << <<U01, <<"5">>>>, << <<"X">>, <<"3">>>> >>)

\* One row and no MW column.
CsvC == Text(<<"RESOURCE_NAME">>, << << <<"x">> >> >>)

\* Digits only, with a leading zero and a blank.
CsvN == Text(<<"MW", "RESOURCE_NAME">>,
             << << <<"0", "5">>, <<"1", "0">> >>, << <<>>, <<"5">> >> >>)

DataCsv   == <<"d", "a", "t", "a", ".", "c", "s", "v">>
ExtraCsv  == <<"e", ".", "c", "s", "v">>
UpperCsv  == <<"D", ".", "C", "S", "V">>
ReadmeTxt == <<"r", ".", "t", "x", "t">>

\* Nested archives: one CSV; no CSV (a name in upper case is none); two CSVs
\* below a directory entry; digits only.
ZipA == Zip(<<FileEntry(<<DataCsv>>, CsvA)>>)
ZipB == Zip(<<FileEntry(<<ReadmeTxt>>, Text(<<"hello">>, <<>>)), FileEntry(<<UpperCsv>>, CsvN)>>)
ZipC == Zip(<<DirEntry(<<DataCsv>>), FileEntry(<<DataCsv, ExtraCsv>>, CsvC),
              FileEntry(<<DataCsv>> \o <<DataCsv>>, CsvA)>>)
ZipN == Zip(<<FileEntry(<<DataCsv>>, CsvN)>>)

\* Bytes that are no zip container.
Garbage == Text(<<>>, <<>>)

AZip   == <<"a", ".", "z", "i", "p">>
BZip   == <<"b", ".", "z", "i", "p">>
NZip   == <<"n", ".", "z", "i", "p">>
CZip   == <<"c", ".", "z", "i", "p">>
BadZip == <<"b", "a", "d", ".", "z", "i", "p">>
EZIP   == <<"e", ".", "Z", "I", "P">>
Sub    == <<"s", "u", "b">>

\* What a top-level archive may hold.
Pool ==
    << FileEntry(<<AZip>>, ZipA),
       FileEntry(<<BZip>>, ZipB),
       FileEntry(<<NZip>>, ZipN),
       DirEntry(<<Sub>>),
       FileEntry(<<Sub, CZip>>, ZipC),
       FileEntry(<<BadZip>>, Garbage),
       FileEntry(<<EZIP>>, ZipA) >>

Ascending(S) ==
    CHOOSE s \in [1..Cardinality(S) -> S] : \A i, j \in 1..Cardinality(S) : i < j => s[i] < s[j]

\* The top-level archives: up to MaxEntries entries of the pool; a path that
\* names no file; a file that is no zip container.
Archives ==
    {Zip([i \in 1..Cardinality(S) |-> Pool[Ascending(S)[i]]]) :
        S \in {T \in SUBSET (1..Len(Pool)) : Cardinality(T) <= MaxEntries}}
    \cup {Missing, Garbage}

FilterColumns == {"RESOURCE_NAME", "MW", "PRICE"}

FilterTexts == {U01, <<"X">>, <<"x">>, <<"5">>, <<"5", ".", "0">>, <<"0", "5">>,
                <<"1", "0">>, <<"n", "a", "n">>, <<>>}

-----------------------------------------------------------------------------
(* The program.                                                            *)

Procs == {"p1", "p2"}

NoFilterCall == [called |-> FALSE, t |-> EmptyDataFrame, c |-> "", v |-> <<>>,
                 out |-> NoOutcome, twice |-> NoOutcome]

NoSaveCall == [called |-> FALSE, t |-> EmptyDataFrame, io |-> "ok", out |-> NoOutcome,
               printed |-> "", written |-> FALSE, file |-> to_csv_text(EmptyDataFrame)]

Init ==
    /\ fs = NoScratch
    /\ pc = [p \in Procs |-> "idle"]
    /\ arch = [p \in Procs |-> Missing]
    /\ pending = [p \in Procs |-> NoOutcome]
    /\ ret = [p \in Procs |-> NoOutcome]
    /\ runs = 0
    /\ faults = 0
    /\ fcall = NoFilterCall
    /\ scall = NoSaveCall

\* Lines 84-85: the call, and os.makedirs(temp_dir, exist_ok=True).
Call(p, a) ==
    /\ pc[p] \in {"idle", "done"}
    /\ runs < MaxRuns
    /\ fs' = makedirs(fs)
    /\ pc' = [pc EXCEPT ![p] = "extract"]
    /\ arch' = [arch EXCEPT ![p] = a]
    /\ pending' = [pending EXCEPT ![p] = NoOutcome]
    /\ ret' = [ret EXCEPT ![p] = NoOutcome]
    /\ runs' = runs + 1
    /\ fcall' = NoFilterCall
    /\ scall' = NoSaveCall
    /\ UNCHANGED faults

\* The program of main.py: one call at a time, the table of the last call
\* then filtered and saved.
CallAlone(a) ==
    /\ \A q \in Procs : pc[q] \in {"idle", "done"}
    /\ ~fcall.called
    /\ ~scall.called
    /\ Call("p1", a)

\* Two callers at once, each calling once.
CallConcurrently(p, a) ==
    /\ pc[p] = "idle"
    /\ Call(p, a)

\* Line 88: extract_all_subdirs(dir_a, temp_dir); a failure goes to finally.
Extract(p) ==
    /\ pc[p] = "extract"
    /\ LET r == extract_all_subdirs(fs, arch[p])
       IN /\ fs' = r.tree
          /\ IF r.outcome.kind = "raise"
             THEN /\ pending' = [pending EXCEPT ![p] = r.outcome]
                  /\ pc' = [pc EXCEPT ![p] = "cleanup"]
             ELSE /\ pending' = pending
                  /\ pc' = [pc EXCEPT ![p] = "combine"]
    /\ UNCHANGED <<arch, ret, runs, faults, fcall, scall>>

\* Line 89: return combine_csvs_from_dir(temp_dir); the value or the failure
\* waits for finally.
Combine(p) ==
    /\ pc[p] = "combine"
    /\ \E order \in walk(fs, <<>>) :
          pending' = [pending EXCEPT ![p] = combine_csvs_from_dir(fs, order)]
    /\ pc' = [pc EXCEPT ![p] = "cleanup"]
    /\ UNCHANGED <<fs, arch, ret, runs, faults, fcall, scall>>

\* Lines 92-94, every os.remove succeeding.
Cleanup(p) ==
    /\ pc[p] = "cleanup"
    /\ fs' = remove_files(fs)
    /\ pc' = [pc EXCEPT ![p] = "rmdir"]
    /\ UNCHANGED <<arch, pending, ret, runs, faults, fcall, scall>>

\* Lines 92-94, the environment refusing one os.remove: the exception leaves
\* the finally block at once, line 95 is not reached.
CleanupRefused(p) ==
    /\ pc[p] = "cleanup"
    /\ faults < MaxFaults
    /\ \E order \in walk(fs, <<>>) : \E k \in 1..Len(order) :
          fs' = remove_files_until(fs, order, k)
    /\ ret' = [ret EXCEPT ![p] = finally(pending[p], Raise("PermissionError", ""))]
    /\ pc' = [pc EXCEPT ![p] = "done"]
    /\ faults' = faults + 1
    /\ UNCHANGED <<arch, pending, runs, fcall, scall>>

\* Line 95: os.rmdir(temp_dir), and the end of the call.
Rmdir(p) ==
    /\ pc[p] = "rmdir"
    /\ fs' = rmdir(fs).tree
    /\ ret' = [ret EXCEPT ![p] = finally(pending[p], rmdir(fs).outcome)]
    /\ pc' = [pc EXCEPT ![p] = "done"]
    /\ UNCHANGED <<arch, pending, runs, faults, fcall, scall>>

\* Line 145: filter_dataframe on the table the call returned.
Filter(c, v) ==
    /\ pc["p1"] = "done"
    /\ ret["p1"].kind = "return"
    /\ ~fcall.called
    /\ ~scall.called
    /\ fcall' = [called |-> TRUE, t |-> ret["p1"].value, c |-> c, v |-> v,
                 out |-> filter_dataframe(ret["p1"].value, c, v), twice |-> NoOutcome]
    /\ UNCHANGED <<fs, pc, arch, pending, ret, runs, faults, scall>>

\* filter_dataframe on its own result, with the same column and text.
FilterAgain ==
    /\ fcall.out.kind = "return"
    /\ fcall.twice.kind = "nocall"
    /\ ~scall.called
    /\ fcall' = [fcall EXCEPT !.twice = filter_dataframe(fcall.out.value, fcall.c, fcall.v)]
    /\ UNCHANGED <<fs, pc, arch, pending, ret, runs, faults, scall>>

\* save_dataframe_to_csv on the returned or the filtered table.  A write the
\* disk has no room for leaves some of the lines.
Save(io) ==
    /\ pc["p1"] = "done"
    /\ ret["p1"].kind = "return"
    /\ ~scall.called
    /\ \E t \in {ret["p1"].value} \cup (IF fcall.out.kind = "return" THEN {fcall.out.value} ELSE {}) :
       \E n \in 0..Len(t.rows) :
          /\ io # "ENOSPC" => n = Len(t.rows)
          /\ scall' = [called |-> TRUE, t |-> t, io |-> io,
                       out |-> save_dataframe_to_csv(t, io).outcome,
                       printed |-> save_dataframe_to_csv(t, io).printed,
                       written |-> io \in {"ok", "ENOSPC"},
                       file |-> IF io \in {"ok", "ENOSPC"}
                                THEN [to_csv_text(t) EXCEPT !.lines = SubSeq(@, 1, n)]
                                ELSE to_csv_text(EmptyDataFrame)]
    /\ UNCHANGED <<fs, pc, arch, pending, ret, runs, faults, fcall>>

Next ==
    \/ \E a \in Archives : CallAlone(a)
    \/ Extract("p1")
    \/ Combine("p1")
    \/ Cleanup("p1")
    \/ CleanupRefused("p1")
    \/ Rmdir("p1")
    \/ \E c \in FilterColumns, v \in FilterTexts : Filter(c, v)
    \/ FilterAgain
    \/ \E io \in IoConditions : Save(io)

Spec == Init /\ [][Next]_vars

NextConcurrent ==
    \E p \in Procs :
        \/ \E a \in Archives : CallConcurrently(p, a)
        \/ Extract(p)
        \/ Combine(p)
        \/ Cleanup(p)
        \/ Rmdir(p)

SpecConcurrent == Init /\ [][NextConcurrent]_vars

\* What a call gives when it runs alone from an absent scratch directory and
\* no os.remove is refused: lines 84-95 in sequence.
RunAlone(a) ==
    LET extracted == extract_all_subdirs(makedirs(NoScratch), a)
        tried     == IF extracted.outcome.kind = "raise" THEN {extracted.outcome}
                     ELSE {combine_csvs_from_dir(extracted.tree, order) :
                             order \in walk(extracted.tree, <<>>)}
        cleanup   == rmdir(remove_files(extracted.tree)).outcome
    IN {finally(t, cleanup) : t \in tried}

-----------------------------------------------------------------------------
(* The claims.                                                             *)

Done(p) == pc[p] = "done"

\* C1: after any invocation of run completes, returning or raising, the
\* scratch directory does not exist on disk (stated for the runs in which
\* the environment refused no os.remove).
C1_ScratchGoneAfterRun ==
    \A p \in Procs : Done(p) /\ faults = 0 => ~Exists(fs, <<>>)

\* C2: whenever extraction and aggregation both succeed, run returns the
\* combined table to its caller (stated for the runs in which the
\* environment refused no os.remove).
C2_ReturnsCombinedTable ==
    \A p \in Procs :
        Done(p) /\ pending[p].kind = "return" /\ faults = 0 => ret[p] = pending[p]

\* The CSV payload of a nested archive: the text of its first entry named
\* *.csv, if it has one.
CsvEntries(content) ==
    {i \in 1..Len(content.entries) : EndsWith(EntryName(content.entries[i]), DotCsv)}

PayloadRows(content) ==
    IF CsvEntries(content) = {} THEN 0
    ELSE Len(content.entries[CHOOSE i \in CsvEntries(content) :
                               \A j \in CsvEntries(content) : i <= j].data.lines)

ZipsUnder(tree) == {q \in AllFiles(tree) : EndsWith(Last(q), DotZip)}

RECURSIVE SumPayloadRows(_, _)
SumPayloadRows(tree, S) ==
    IF S = {} THEN 0
    ELSE LET q == CHOOSE x \in S : TRUE
         IN PayloadRows(tree[q]) + SumPayloadRows(tree, S \ {q})

Aggregated(p) == pc[p] = "cleanup" /\ ZipFile(arch[p]).kind # "raise"

\* C3: over a directory tree of valid nested archives combine returns a
\* table whose row count is the sum of the row counts of the CSV payloads
\* found, one per .zip file under the root; an archive with no .csv entry
\* contributes zero rows, and when no table is collected the result is the
\* empty table (0 rows, 0 columns).
C3_CombineRowCount ==
    \A p \in Procs :
        Aggregated(p) /\ (\A q \in ZipsUnder(fs) : fs[q].type = "zip") =>
            /\ pending[p].kind = "return"
            /\ Len(pending[p].value.rows) = SumPayloadRows(fs, ZipsUnder(fs))
            /\ (\A q \in ZipsUnder(fs) : CsvEntries(fs[q]) = {}) =>
                   pending[p].value = EmptyDataFrame

\* A zip in a subdirectory and a zip with no CSV have been combined.
C3_Witness ==
    /\ Aggregated("p1")
    /\ pending["p1"].kind = "return"
    /\ Len(pending["p1"].value.rows) > 0
    /\ \E q \in ZipsUnder(fs) : Len(q) > 1 /\ CsvEntries(fs[q]) # {}
    /\ \E q \in ZipsUnder(fs) : CsvEntries(fs[q]) = {}

Matching(t, c, v) == {i \in 1..Len(t.rows) : astype_str(t.rows[i][c]) = v}

\* C4: for a column c of t, filter(t, c, v) returns exactly the rows of t
\* whose cell at c, converted to its string representation, equals v, in
\* their original relative order and with the full column set of t; zero
\* rows is a valid outcome.
C4_FilterSelectsMatchingRows ==
    fcall.called /\ fcall.c \in Range(fcall.t.cols) =>
        /\ fcall.out.kind = "return"
        /\ fcall.out.value.cols = fcall.t.cols
        /\ Len(fcall.out.value.rows) = Cardinality(Matching(fcall.t, fcall.c, fcall.v))
        /\ \E f \in [1..Len(fcall.out.value.rows) -> Matching(fcall.t, fcall.c, fcall.v)] :
              /\ \A m, n \in DOMAIN f : m < n => f[m] < f[n]
              /\ \A n \in DOMAIN f : fcall.out.value.rows[n] = fcall.t.rows[f[n]]

\* Some rows kept through the string form of a number, some dropped.
C4_Witness ==
    /\ fcall.called
    /\ fcall.c \in Range(fcall.t.cols)
    /\ fcall.out.kind = "return"
    /\ Len(fcall.out.value.rows) > 0
    /\ Len(fcall.out.value.rows) < Len(fcall.t.rows)
    /\ \E n \in 1..Len(fcall.out.value.rows) : fcall.out.value.rows[n][fcall.c].k = "int"

\* C5: filter with a column name that is not among the table's columns
\* fails with the column-not-found error and returns no result, whatever
\* the table holds; so on the empty table it fails for every column name.
C5_FilterMissingColumnFails ==
    fcall.called /\ fcall.c \notin Range(fcall.t.cols) =>
        fcall.out = Raise("ValueError: column not found", "")

\* The filter has failed on the empty table of an archive without entries.
C5_Witness ==
    /\ fcall.called
    /\ arch["p1"] = Zip(<<>>)
    /\ fcall.t = EmptyDataFrame
    /\ fcall.out.kind = "raise"

\* C6: when extraction or aggregation fails, the failure run propagates is
\* that original failure, also when the cleanup fails too (stated for the
\* runs in which the environment refused no os.remove, where the cleanup
\* can fail only on a scratch directory that is not empty).
C6_OriginalFailurePropagates ==
    \A p \in Procs :
        Done(p) /\ pending[p].kind = "raise" /\ faults = 0 => ret[p] = pending[p]

\* C7: write fails with an error that reaches its caller on any I/O failure
\* while persisting the table.
C7_WriteFailureReachesCaller ==
    scall.called /\ scall.io # "ok" => scall.out.kind = "raise"

\* C8: the table run returns holds rows only of the given archive's nested
\* archives: it is a table the call gives from an absent scratch directory.
C8_OnlyOwnArchiveRows ==
    \A p \in Procs : Done(p) /\ ret[p].kind = "return" => ret[p] \in RunAlone(arch[p])

\* C9: filter is idempotent: filter(filter(t, c, v), c, v) = filter(t, c, v).
C9_FilterIdempotent ==
    fcall.twice.kind # "nocall" => fcall.twice = fcall.out

\* The filter has been applied twice, keeping the rows of a float column
\* whose string form ends in ".0" and dropping others.
C9_Witness ==
    /\ fcall.twice.kind = "return"
    /\ fcall.v = <<"5", ".", "0">>
    /\ Len(fcall.twice.value.rows) > 0
    /\ Len(fcall.twice.value.rows) < Len(fcall.t.rows)

\* A top-level archive of valid nested archives, none in a subdirectory:
\* alone, the call on it returns its table and removes the scratch directory.
FlatValid(a) ==
    /\ a.type = "zip"
    /\ \A i \in 1..Len(a.entries) :
          Len(a.entries[i].path) = 1 /\ a.entries[i].data.type = "zip"

\* C10: in every interleaving of two invocations of run each returns
\* exactly the table it returns when run alone (stated for invocations on
\* flat archives of valid nested archives, which alone all succeed).
C10_NoInterference ==
    \A p \in Procs :
        /\ Done(p)
        /\ ret[p].kind = "return"
        /\ \A q \in Procs : pc[q] = "idle" \/ FlatValid(arch[q])
        => ret[p] \in RunAlone(arch[p])

=============================================================================
